---- MODULE Spec2Model ----
(***************************************************************************)
(* Model of the LQM prediction pipeline: the RULES table (model.py), the   *)
(* classical scorer, the daily shot counter (firestore_util.py), the       *)
(* simulated QPU (qpu_client.py, circuits.py), batch_predict, and the      *)
(* Optuna tuning loop (tune.py).                                           *)
(*                                                                         *)
(* Units.  Weights, scores, the IV figures and the circuit angles are in   *)
(* thousandths (0.4 is 400); confidences and the QPU threshold are in      *)
(* hundredths, the precision round(x, 2) leaves (0.75 is 75); RSI          *)
(* thresholds are RSI points; prices are positive integers.                *)
(***************************************************************************)
EXTENDS Integers, Sequences, FiniteSets, TLC

\* ------------------------------------------------------------ bounds
\* Number of concurrent callers (request threads / processes).
NumCallers == 2
\* Number of UTC days the clock runs through.
MaxDay == 2
\* Total number of API calls started in one behaviour.
MaxCalls == 2

Procs == 1..NumCallers
Days  == 1..MaxDay

\* ------------------------------------------------- program constants
DAILY_BUDGET   == 2500
shots_per_row  == 100
SHOTS_PER_FEAT == shots_per_row
QPU_THRESHOLD  == 75
RSI_WINDOW     == 14
MA_WINDOW      == 10
iv_today       == 350
iv_hist        == <<250, 280, 300, 270, 330, 380, 310>>

Abs(x) == IF x < 0 THEN -x ELSE x
Min(a, b) == IF a < b THEN a ELSE b
Max(a, b) == IF a > b THEN a ELSE b

RECURSIVE SumSeq(_)
SumSeq(s) == IF s = <<>> THEN 0 ELSE Head(s) + SumSeq(Tail(s))

\* pandas Series.tail(w): the last w entries, or all of them if fewer.
TailN(s, w) == SubSeq(s, Max(1, Len(s) - w + 1), Len(s))

\* Python round(x, 2) of a non-negative value given in thousandths, as
\* hundredths; a tie goes to the even hundredth.
Round2(x) ==
  LET q == x \div 10
      r == x % 10
  IN  IF r < 5 THEN q
      ELSE IF r > 5 THEN q + 1
      ELSE IF q % 2 = 0 THEN q ELSE q + 1

\* ------------------------------------------------------------- RULES
RuleKeys == {"ma_trend_weight", "rsi_extreme_weight", "vol_rank_weight",
             "momentum_3d_weight", "rsi_high", "rsi_low", "iv_rank_high",
             "iv_rank_low", "angle_0", "angle_1"}

DefaultRules ==
  [k \in RuleKeys |->
     CASE k = "ma_trend_weight"    -> 400
       [] k = "rsi_extreme_weight" -> 300
       [] k = "vol_rank_weight"    -> 200
       [] k = "momentum_3d_weight" -> 100
       [] k = "rsi_high"           -> 70
       [] k = "rsi_low"            -> 30
       [] k = "iv_rank_high"       -> 700
       [] k = "iv_rank_low"        -> 300
       [] k = "angle_0"            -> 1571
       [] k = "angle_1"            -> 1571]

\* dict.update: the keys of the override replace, the others stay.
Update(base, over) ==
  [k \in DOMAIN base \cup DOMAIN over |->
     IF k \in DOMAIN over THEN over[k] ELSE base[k]]

\* ------------------------------------------- override files (model.py)
\* A file is Absent or holds a JSON object: a map over some RuleSet keys;
\* or it holds no text at all, or text that is not JSON.
Absent == [absent |-> TRUE]
EmptyText == [empty |-> TRUE]
Garbled == [garbled |-> TRUE]

\* Mutant of FileNames: rules.json is tried first.
FileNamesRulesFirst == <<"rules.json", "best_params.json">>

\* for fname in ("best_params.json", "rules.json")
FileNames == <<"best_params.json", "rules.json">>

\* json.loads raises on text that is not a JSON document.
Parses(content) == content \notin {EmptyText, Garbled}

\* The override documents the files may hold when the module is imported.
OverrideDocs ==
  { [ma_trend_weight |-> 1000],
    [rsi_extreme_weight |-> -377, vol_rank_weight |-> 7] }

\* The module-level loop: the first file that exists is merged, then break.
RECURSIVE LoadFrom(_, _, _)
LoadFrom(rules, fs, i) ==
  IF i > Len(FileNames) THEN rules
  ELSE IF fs[FileNames[i]] # Absent
       THEN Update(rules, fs[FileNames[i]])
       ELSE LoadFrom(rules, fs, i + 1)

LoadRules(fs) == LoadFrom(DefaultRules, fs, 1)

\* ------------------------------------------------ helpers (model.py)
\* A price history is the Close column: a sequence of positive integers,
\* oldest first.
Close(df) == df

\* close > ma(df, w), with ma the mean of the last w closes.
AboveMa(df, w) ==
  LET t == TailN(Close(df), w)
  IN  Close(df)[Len(df)] * Len(t) > SumSeq(t)

\* df["Close"].diff().dropna()
Diff(df) == [i \in 1..(Len(df) - 1) |-> Close(df)[i + 1] - Close(df)[i]]

\* rsi(df, w) as an exact fraction [num, den] (den > 0).
rsi(df, w) ==
  LET delta    == Diff(df)
      gains    == [i \in DOMAIN delta |-> Max(delta[i], 0)]
      losses   == [i \in DOMAIN delta |-> -Min(delta[i], 0)]
      avg_gain == SumSeq(TailN(gains, w))
      avg_loss == SumSeq(TailN(losses, w))
  IN  IF Len(delta) < w THEN [num |-> 50, den |-> 1]
      ELSE IF avg_loss = 0
           THEN (IF avg_gain > 0 THEN [num |-> 100, den |-> 1]
                                 ELSE [num |-> 50, den |-> 1])
           ELSE [num |-> 100 * avg_gain, den |-> avg_gain + avg_loss]

\* iv_rank(cur_iv, hist) = (hist < cur_iv).mean(), as a fraction.
iv_rank(cur_iv, hist) ==
  [num |-> Cardinality({i \in DOMAIN hist : hist[i] < cur_iv}),
   den |-> Len(hist)]

\* f >= t and f <= t for a fraction f and a threshold t given in 1/scale.
FracGE(f, t, scale) == f.num * scale >= t * f.den
FracLE(f, t, scale) == f.num * scale <= t * f.den

\* ----------------------------------------- _classical_predict (model.py)
Raised == [ok |-> FALSE]

\* Mutant of Confidence: the magnitude of the score is not clipped at 1.0.
ConfidenceUnclipped(score) == Round2(Abs(score))

\* prediction = 1 if score >= 0 else -1
Prediction(score) == IF score >= 0 THEN 1 ELSE -1

\* confidence = round(min(abs(score), 1.0), 2)
Confidence(score) == Round2(Min(Abs(score), 1000))

Score(rules, df) ==
  LET close == Close(df)[Len(df)]
      back4 == Close(df)[Len(df) - 3]
      rsi14 == rsi(df, RSI_WINDOW)
      iv    == iv_rank(iv_today, iv_hist)
      s1 == rules["ma_trend_weight"]
              * (IF AboveMa(df, MA_WINDOW) THEN 1 ELSE -1)
      s2 == rules["momentum_3d_weight"]
              * (IF close - back4 > 0 THEN 1 ELSE -1)
      s3 == IF FracGE(rsi14, rules["rsi_high"], 1)
            THEN -rules["rsi_extreme_weight"]
            ELSE IF FracLE(rsi14, rules["rsi_low"], 1)
                 THEN rules["rsi_extreme_weight"] ELSE 0
      s4 == IF FracGE(iv, rules["iv_rank_high"], 1000)
            THEN -rules["vol_rank_weight"]
            ELSE IF FracLE(iv, rules["iv_rank_low"], 1000)
                 THEN rules["vol_rank_weight"] ELSE 0
  IN  s1 + s2 + s3 + s4

\* iloc[-1] and iloc[-4] raise IndexError on a history of fewer than 4 rows.
classical_predict(rules, df) ==
  IF Len(df) < 4 THEN Raised
  ELSE [ok   |-> TRUE,
        pred |-> Prediction(Score(rules, df)),
        conf |-> Confidence(Score(rules, df))]

\* ------------------------------------------------- market histories
\* The windows fetch_last_n may return (lookback_days = 20).
lookback_days == 20
Lookback == 1..lookback_days
HistUp    == [i \in Lookback |-> 100 + i]
HistDown  == [i \in Lookback |-> 200 - i]
HistFlat  == [i \in Lookback |-> 100]
HistSag   == [i \in Lookback |->
                IF i <= 8 THEN 100 ELSE IF i <= 17 THEN 200 ELSE 200 - 2 * (i - 17)]
HistDip   == [i \in Lookback |->
                IF i <= 8 THEN 200 ELSE IF i <= 17 THEN 100 ELSE 100 + 2 * (i - 17)]
HistShort == <<100, 101, 102, 103, 104>>
HistOne   == <<100>>
Histories == {HistUp, HistDown, HistFlat, HistSag, HistDip, HistShort, HistOne}

\* --------------------------------------- shot counter (firestore_util.py)
\* The counter document maps a day key to the shots used that day; a key
\* that was never written is missing.
EmptyDoc == [d \in {} |-> 0]

\* data.get(today, 0)
Get(data, k) == IF k \in DOMAIN data THEN data[k] ELSE 0

\* Mutant of Exceeds: a request that lands exactly on the budget is refused.
ExceedsAtLimit(used, n) == used + n >= DAILY_BUDGET

\* if used + n > _DAILY_BUDGET
Exceeds(used, n) == used + n > DAILY_BUDGET

\* Mutant of txn: tx.set stores today's key alone, dropping the others.
txnOnlyToday(data, day, n) ==
  LET used == Get(data, day)
  IN  IF Exceeds(used, n)
      THEN [ret |-> FALSE, data |-> data]
      ELSE [ret |-> TRUE,  data |-> (day :> (used + n))]

\* The body of txn on the snapshot it read: the value it returns and the
\* document it stages with tx.set.
txn(data, day, n) ==
  LET used == Get(data, day)
  IN  IF Exceeds(used, n)
      THEN [ret |-> FALSE, data |-> data]
      ELSE [ret |-> TRUE,  data |-> (day :> (used + n)) @@ data]

\* Mutant of CommitOk: the write goes through whatever was stored meanwhile.
CommitOkBlind(stored, snapshot) == TRUE

\* The transaction commits only if the document it read is still the one
\* stored; otherwise Firestore runs txn again.
CommitOk(stored, snapshot) == stored = snapshot

\* --------------------------------- circuits.py and qpu_client.py
fA == [spot_price |-> 1, strike_price |-> 1]
fB == [spot_price |-> 2, strike_price |-> 1]
fR == [spot_price |-> 3, strike_price |-> 2]
fZ == [spot_price |-> 1, strike_price |-> 0]

\* The batches a caller may send.
Batches == { <<>>, <<fR>>, <<fA, fR, fB>>, <<fA, fZ, fB>> }

\* Counts of outcome 1 the simulator may report for a circuit whose
\* outcome is not certain.
HistOnes == {49, 50}

\* diff = (spot - strike) / strike divides by zero when strike is 0.
BuildRaises(feature) == feature.strike_price = 0

\* build_circuit: ry(theta) on q0 with theta = diff * pi; the circuit is
\* kept as the fraction diff = num / den.
build_circuit(feature) ==
  [num |-> feature.spot_price - feature.strike_price,
   den |-> feature.strike_price]

\* Measuring q0 after ry(theta) gives 1 with probability sin^2(theta/2):
\* never when diff is an even integer, always when it is an odd one.
OnesOf(c) ==
  IF c.num % c.den = 0
  THEN (IF (c.num \div c.den) % 2 = 0 THEN {0} ELSE {shots_per_row})
  ELSE HistOnes

\* One histogram of submit: {"1": ones, "0": shots_per_row - ones}.
Histogram(ones) == [one |-> ones, zero |-> shots_per_row - ones]

\* The results submit may return for a batch of circuits, in order.
RECURSIVE SubmitResults(_)
SubmitResults(cs) ==
  IF cs = <<>> THEN { <<>> }
  ELSE { <<Histogram(o)>> \o rest :
           o \in OnesOf(Head(cs)), rest \in SubmitResults(Tail(cs)) }

\* ---------------------------------------- batch_predict (model.py)
\* Mutant of Broadcast: the list is not repeated len(feats) times.
BroadcastOne(x, fs) == <<x>>

\* [x] * len(feats)
Broadcast(x, fs) == [i \in 1..Len(fs) |-> x]

\* Mutant of Qualifies: a lower escalation threshold.
QualifiesLow(c) == c >= 70

\* The escalation test on one preview confidence.
Qualifies(c) == c >= QPU_THRESHOLD

\* idx_qpu = [i for i, c in enumerate(confs) if c >= QPU_THRESHOLD],
\* in increasing order.
RECURSIVE IdxFrom(_, _)
IdxFrom(cs, i) ==
  IF i > Len(cs) THEN <<>>
  ELSE (IF Qualifies(cs[i]) THEN <<i>> ELSE <<>>) \o IdxFrom(cs, i + 1)

\* Mutant of IdxQpu: the selection stops at the first record.
IdxQpuFirst(cs) ==
  IF cs # <<>> /\ Qualifies(cs[1]) THEN <<1>> ELSE <<>>

IdxQpu(cs) == IdxFrom(cs, 1)

\* Mutant of NeededShots: one item's worth whatever the selection.
NeededShotsFlat(idx) == SHOTS_PER_FEAT

\* needed_shots = len(idx_qpu) * SHOTS_PER_FEAT
NeededShots(idx) == Len(idx) * SHOTS_PER_FEAT

\* Mutant of FireQpu: the value of use_shots is not looked at.
FireQpuUnchecked(idx, allowed) == idx # <<>>

\* if idx_qpu and use_shots(needed_shots)
FireQpu(idx, allowed) == idx # <<>> /\ allowed

\* Python round(x, 2), as hundredths, of the non-negative fraction a / b.
RoundFrac2(a, b) ==
  LET q == (100 * a) \div b
      r == (100 * a) % b
  IN  IF 2 * r < b THEN q
      ELSE IF 2 * r > b THEN q + 1
      ELSE IF q % 2 = 0 THEN q ELSE q + 1

\* Mutant of FusePred: a tie is read as bearish.
FusePredStrict(h) ==
  LET total == Max(h.one + h.zero, 1)
  IN  IF 2 * h.one > total THEN 1 ELSE -1

\* The signal and confidence read off one histogram.
FusePred(h) ==
  LET total == Max(h.one + h.zero, 1)
  IN  IF 2 * h.one >= total THEN 1 ELSE -1

FuseConf(h) ==
  LET total == Max(h.one + h.zero, 1)
  IN  RoundFrac2(Abs(2 * h.one - total), total)

\* The position of i in idx, or 0.
PosIn(idx, i) ==
  IF \E j \in DOMAIN idx : idx[j] = i
  THEN CHOOSE j \in DOMAIN idx : idx[j] = i ELSE 0

\* for j, i in enumerate(idx_qpu): preds[i] = ...; confs[i] = ...
FusePreds(ps, idx, hs) ==
  [i \in DOMAIN ps |->
     IF PosIn(idx, i) # 0 THEN FusePred(hs[PosIn(idx, i)]) ELSE ps[i]]

FuseConfs(cs, idx, hs) ==
  [i \in DOMAIN cs |->
     IF PosIn(idx, i) # 0 THEN FuseConf(hs[PosIn(idx, i)]) ELSE cs[i]]

\* ------------------------------------------------------------- state
VARIABLES
  files,     \* the override files beside model.py
  RULES,     \* the module-level RULES dict
  clock,     \* the current UTC day
  doc,       \* the stored counter document lqm_logs/shot_counter
  calls,     \* calls started so far
  granted,   \* per day, the sum of the amounts use_shots granted
  drawn,     \* per day of reservation, the samples the backend drew
  pc,        \* per caller, where it is
  op,        \* per caller, the call it runs: use_shots or batch_predict
  feats,     \* per caller, the batch passed to batch_predict
  preview,   \* per caller, the result of _classical_predict
  idx_qpu,   \* per caller, the selected indices
  needed,    \* per caller, the amount n passed to use_shots
  today,     \* per caller, the day key use_shots computed
  snap,      \* per caller, the document its transaction read
  ret,       \* per caller, what use_shots returned
  hists,     \* per caller, the histograms submit returned
  preds,     \* per caller, the signals batch_predict returns
  confs,     \* per caller, the confidences batch_predict returns
  fault,     \* per caller, the exception that left batch_predict
  reserves,  \* per caller, the use_shots calls its call has made
  charged,   \* per caller, what its call has added to the stored counter
  tpc,       \* tune.py: where main is
  trial,     \* tune.py: the number of the current trial
  params,    \* tune.py: the parameters suggested for the current trial
  study,     \* tune.py: the finished trials of the Optuna study
  closes,    \* sim.py: the closing prices simulate downloaded
  rows,      \* sim.py: the rows simulate has built
  seen,      \* the weights the scorer read for its latest score
  hit_rate,  \* tune.py: the hit rate run_backtest returned to objective
  lpc,       \* model.py import: where the override loop is
  fidx,      \* model.py import: the position of fname in the loop
  text       \* model.py import: what p.read_text() returned

globals == <<files, RULES, clock, doc, calls, granted, drawn>>
locals  == <<pc, op, feats, preview, idx_qpu, needed, today, snap, ret,
             hists, preds, confs, fault, reserves, charged>>
loadvars == <<lpc, fidx, text>>
tunevars == <<tpc, trial, params, study, closes, rows, seen, hit_rate,
              loadvars>>
vars    == <<globals, locals, tunevars>>

\* Amounts passed to use_shots by a direct caller.
ReserveAmounts == {2400}

NoPreview == [pred |-> 0, conf |-> 0]

\* The market windows fetch_last_n returns to the callers.
Windows == {HistFlat, HistSag, HistOne}

\* What _classical_predict may give on the window it fetches.
Previews(rules) == { classical_predict(rules, df) : df \in Windows }

\* The serving process is started with no override file beside model.py.
NoFiles == [f \in {"best_params.json", "rules.json"} |-> Absent]

InitGlobals ==
  /\ files = NoFiles
  /\ RULES = LoadRules(files)
  /\ clock = 1
  /\ doc = EmptyDoc
  /\ calls = 0
  /\ granted = [d \in Days |-> 0]
  /\ drawn = [d \in Days |-> 0]

InitLocals ==
  /\ pc = [p \in Procs |-> "idle"]
  /\ op = [p \in Procs |-> "none"]
  /\ feats = [p \in Procs |-> <<>>]
  /\ preview = [p \in Procs |-> NoPreview]
  /\ idx_qpu = [p \in Procs |-> <<>>]
  /\ needed = [p \in Procs |-> 0]
  /\ today = [p \in Procs |-> 0]
  /\ snap = [p \in Procs |-> EmptyDoc]
  /\ ret = [p \in Procs |-> "none"]
  /\ hists = [p \in Procs |-> <<>>]
  /\ preds = [p \in Procs |-> <<>>]
  /\ confs = [p \in Procs |-> <<>>]
  /\ fault = [p \in Procs |-> "none"]
  /\ reserves = [p \in Procs |-> 0]
  /\ charged = [p \in Procs |-> 0]

NoParams == [k \in {} |-> 0]
NoRate == [num |-> 0, den |-> 1]

\* The module has been imported: the override loop is over.
InitLoaded ==
  /\ lpc = "loaded"
  /\ fidx = 0
  /\ text = Absent

InitTuneVars ==
  /\ tpc = "off"
  /\ trial = 0
  /\ params = NoParams
  /\ study = <<>>
  /\ closes = <<>>
  /\ rows = <<>>
  /\ seen = NoParams
  /\ hit_rate = NoRate
  /\ InitLoaded

Init == InitGlobals /\ InitLocals /\ InitTuneVars

\* --------------------------------------------------------- actions
\* Midnight UTC passes.
Tick ==
  /\ UNCHANGED tunevars
  /\ clock < MaxDay
  /\ clock' = clock + 1
  /\ UNCHANGED <<files, RULES, doc, calls, granted, drawn, locals>>

\* A caller enters use_shots(n) directly: today = _today_key().
Reserve(p) ==
  /\ UNCHANGED tunevars
  /\ pc[p] = "idle"
  /\ calls < MaxCalls
  /\ \E n \in ReserveAmounts :
       needed' = [needed EXCEPT ![p] = n]
  /\ calls' = calls + 1
  /\ op' = [op EXCEPT ![p] = "use_shots"]
  /\ today' = [today EXCEPT ![p] = clock]
  /\ pc' = [pc EXCEPT ![p] = "txn"]
  /\ reserves' = [reserves EXCEPT ![p] = @ + 1]
  /\ UNCHANGED <<files, RULES, clock, doc, granted, drawn, feats, preview,
                 idx_qpu, snap, ret, hists, preds, confs, fault, charged>>

\* batch_predict up to the call of use_shots: the preview, its broadcast,
\* the selection and needed_shots.  With nothing selected it returns the
\* preview; a history too short for iloc[-4] raises out of the call.
BatchPredictOf(p, batches) ==
  /\ UNCHANGED tunevars
  /\ pc[p] = "idle"
  /\ calls < MaxCalls
  /\ calls' = calls + 1
  /\ op' = [op EXCEPT ![p] = "batch_predict"]
  /\ \E fs \in batches, r \in Previews(RULES) :
       /\ IF ~r.ok
          THEN /\ pc' = [pc EXCEPT ![p] = "raised"]
               /\ fault' = [fault EXCEPT ![p] = "IndexError"]
               /\ UNCHANGED <<feats, preview, idx_qpu, needed, today, preds,
                              confs, reserves>>
          ELSE LET ps  == Broadcast(r.pred, fs)
                   cs  == Broadcast(r.conf, fs)
                   idx == IdxQpu(cs)
               IN  /\ feats' = [feats EXCEPT ![p] = fs]
                   /\ preview' = [preview EXCEPT
                                    ![p] = [pred |-> r.pred, conf |-> r.conf]]
                   /\ preds' = [preds EXCEPT ![p] = ps]
                   /\ confs' = [confs EXCEPT ![p] = cs]
                   /\ idx_qpu' = [idx_qpu EXCEPT ![p] = idx]
                   /\ needed' = [needed EXCEPT ![p] = NeededShots(idx)]
                   /\ UNCHANGED fault
                   /\ IF idx = <<>>
                      THEN /\ pc' = [pc EXCEPT ![p] = "returned"]
                           /\ UNCHANGED <<today, reserves>>
                      ELSE /\ pc' = [pc EXCEPT ![p] = "txn"]
                           /\ today' = [today EXCEPT ![p] = clock]
                           /\ reserves' = [reserves EXCEPT ![p] = @ + 1]
  /\ UNCHANGED <<files, RULES, clock, doc, granted, drawn, snap, ret, hists,
                 charged>>

\* A caller sends one of the batches.
BatchPredict(p) == BatchPredictOf(p, Batches)

\* What the caller does with the value use_shots returned.
AfterUseShots(p, allowed) ==
  /\ ret' = [ret EXCEPT ![p] = IF allowed THEN "granted" ELSE "denied"]
  /\ pc' = [pc EXCEPT ![p] =
              IF op[p] = "batch_predict" /\ FireQpu(idx_qpu[p], allowed)
              THEN "refine" ELSE "returned"]

\* The transaction reads the document and runs txn on it.  A rejection
\* writes nothing and returns False; otherwise the write is staged.
TxnRead(p) ==
  /\ UNCHANGED tunevars
  /\ pc[p] = "txn"
  /\ IF txn(doc, today[p], needed[p]).ret
     THEN /\ snap' = [snap EXCEPT ![p] = doc]
          /\ pc' = [pc EXCEPT ![p] = "commit"]
          /\ UNCHANGED ret
     ELSE /\ AfterUseShots(p, FALSE)
          /\ UNCHANGED snap
  /\ UNCHANGED <<globals, op, feats, preview, idx_qpu, needed, today,
                 hists, preds, confs, fault, reserves, charged>>

\* The commit: the staged document is stored and use_shots returns True,
\* unless another commit came in between, and then txn runs again.
TxnCommit(p) ==
  /\ UNCHANGED tunevars
  /\ pc[p] = "commit"
  /\ IF CommitOk(doc, snap[p])
     THEN /\ doc' = txn(snap[p], today[p], needed[p]).data
          /\ granted' = [granted EXCEPT ![today[p]] = @ + needed[p]]
          /\ charged' = [charged EXCEPT
                           ![p] = @ + Get(doc', today[p]) - Get(doc, today[p])]
          /\ AfterUseShots(p, TRUE)
     ELSE /\ pc' = [pc EXCEPT ![p] = "txn"]
          /\ UNCHANGED <<doc, granted, ret, charged>>
  /\ snap' = [snap EXCEPT ![p] = EmptyDoc]
  /\ UNCHANGED <<files, RULES, clock, calls, drawn, op, feats, preview,
                 idx_qpu, needed, today, hists, preds, confs, fault, reserves>>

\* circuits_batch for the selected records.
CircuitsBatch(p) == [j \in DOMAIN idx_qpu[p] |-> build_circuit(feats[p][idx_qpu[p][j]])]

SomeBuildRaises(p) ==
  \E j \in DOMAIN idx_qpu[p] : BuildRaises(feats[p][idx_qpu[p][j]])

\* The refinement: circuits are built, submitted, and each histogram is
\* turned into the signal and confidence of its record.
Refine(p) ==
  /\ UNCHANGED tunevars
  /\ pc[p] = "refine"
  /\ ~SomeBuildRaises(p)
  /\ \E hs \in SubmitResults(CircuitsBatch(p)) :
       /\ hists' = [hists EXCEPT ![p] = hs]
       /\ preds' = [preds EXCEPT ![p] = FusePreds(preds[p], idx_qpu[p], hs)]
       /\ confs' = [confs EXCEPT ![p] = FuseConfs(confs[p], idx_qpu[p], hs)]
  /\ drawn' = [drawn EXCEPT ![today[p]] =
                 @ + Len(idx_qpu[p]) * shots_per_row]
  /\ pc' = [pc EXCEPT ![p] = "returned"]
  /\ UNCHANGED <<files, RULES, clock, doc, calls, granted, op, feats,
                 preview, idx_qpu, needed, today, snap, ret, fault, reserves,
                 charged>>

\* An exception leaves batch_predict, which has no handler: the frame and
\* the lists it had built are gone; what use_shots did stays done.
Propagate(p, exc) ==
  /\ pc' = [pc EXCEPT ![p] = "raised"]
  /\ fault' = [fault EXCEPT ![p] = exc]
  /\ feats' = [feats EXCEPT ![p] = <<>>]
  /\ preview' = [preview EXCEPT ![p] = NoPreview]
  /\ idx_qpu' = [idx_qpu EXCEPT ![p] = <<>>]
  /\ preds' = [preds EXCEPT ![p] = <<>>]
  /\ confs' = [confs EXCEPT ![p] = <<>>]
  /\ needed' = [needed EXCEPT ![p] = 0]
  /\ today' = [today EXCEPT ![p] = 0]
  /\ UNCHANGED <<globals, op, snap, ret, hists, reserves, charged>>

\* build_circuit divides by a zero strike.
BuildFails(p) ==
  /\ UNCHANGED tunevars
  /\ pc[p] = "refine"
  /\ SomeBuildRaises(p)
  /\ Propagate(p, "ZeroDivisionError")

\* qpu_client.submit raises (the backend is unavailable).
SubmitFails(p) ==
  /\ UNCHANGED tunevars
  /\ pc[p] = "refine"
  /\ ~SomeBuildRaises(p)
  /\ Propagate(p, "BackendUnavailable")

\* The caller has taken the result (or the exception); its frame is gone.
Finish(p) ==
  /\ UNCHANGED tunevars
  /\ pc[p] \in {"returned", "raised"}
  /\ pc' = [pc EXCEPT ![p] = "idle"]
  /\ op' = [op EXCEPT ![p] = "none"]
  /\ feats' = [feats EXCEPT ![p] = <<>>]
  /\ preview' = [preview EXCEPT ![p] = NoPreview]
  /\ idx_qpu' = [idx_qpu EXCEPT ![p] = <<>>]
  /\ needed' = [needed EXCEPT ![p] = 0]
  /\ today' = [today EXCEPT ![p] = 0]
  /\ ret' = [ret EXCEPT ![p] = "none"]
  /\ hists' = [hists EXCEPT ![p] = <<>>]
  /\ preds' = [preds EXCEPT ![p] = <<>>]
  /\ confs' = [confs EXCEPT ![p] = <<>>]
  /\ fault' = [fault EXCEPT ![p] = "none"]
  /\ reserves' = [reserves EXCEPT ![p] = 0]
  /\ charged' = [charged EXCEPT ![p] = 0]
  /\ UNCHANGED <<globals, snap>>

Next ==
  \/ Tick
  \/ \E p \in Procs : Reserve(p)
  \/ \E p \in Procs : BatchPredict(p)
  \/ \E p \in Procs : TxnRead(p)
  \/ \E p \in Procs : TxnCommit(p)
  \/ \E p \in Procs : Refine(p)
  \/ \E p \in Procs : BuildFails(p)
  \/ \E p \in Procs : SubmitFails(p)
  \/ \E p \in Procs : Finish(p)

Spec == Init /\ [][Next]_vars

\* ------------------------------- batches that fill a day's budget
\* The number of records one day's budget pays for.
RecordsPerDay == DAILY_BUDGET \div SHOTS_PER_FEAT

\* A batch of n records of certain outcome.
BatchOf(n) == [i \in 1..n |-> fA]

\* One record, as many as a day's budget pays for, and one more.
DayBatches == { BatchOf(1), BatchOf(RecordsPerDay), BatchOf(RecordsPerDay + 1) }

DayPredict(p) == BatchPredictOf(p, DayBatches)

NextDay ==
  \/ Tick
  \/ \E p \in Procs : DayPredict(p)
  \/ \E p \in Procs : TxnRead(p)
  \/ \E p \in Procs : TxnCommit(p)
  \/ \E p \in Procs : Refine(p)
  \/ \E p \in Procs : SubmitFails(p)
  \/ \E p \in Procs : Finish(p)

SpecDay == Init /\ [][NextDay]_vars

\* ------------------------------------- the scorer and the fusion alone
\* Largest count of one outcome in the small histograms tried.
MaxCount == 3

\* tune.py SEARCH_SPACE: every weight ranges over [-1.0, 1.0]; the values
\* tried, in thousandths.
WeightKeys == {"ma_trend_weight", "rsi_extreme_weight", "vol_rank_weight",
               "momentum_3d_weight"}
WeightGrid == {-1000, -377, 0, 400, 1000}
RuleSets == { Update(DefaultRules, w) : w \in [WeightKeys -> WeightGrid] }

\* The histograms tried: every split of shots_per_row samples, and every
\* small histogram, the empty one included.
Histograms ==
  { Histogram(o) : o \in 0..shots_per_row }
  \cup { [one |-> a, zero |-> b] : a, b \in 0..MaxCount }

InitScore ==
  /\ files = NoFiles
  /\ RULES \in RuleSets
  /\ clock = 1
  /\ doc = EmptyDoc
  /\ calls = 0
  /\ granted = [d \in Days |-> 0]
  /\ drawn = [d \in Days |-> 0]
  /\ InitLocals
  /\ InitTuneVars

\* _classical_predict on one window: the preview of a one-record batch.
ScorePreview(p) ==
  /\ UNCHANGED tunevars
  /\ preds[p] = <<>>
  /\ \E r \in { classical_predict(RULES, df) : df \in Histories } :
       /\ r.ok
       /\ preview' = [preview EXCEPT ![p] = [pred |-> r.pred, conf |-> r.conf]]
       /\ preds' = [preds EXCEPT ![p] = Broadcast(r.pred, <<fR>>)]
       /\ confs' = [confs EXCEPT ![p] = Broadcast(r.conf, <<fR>>)]
  /\ hists' = [hists EXCEPT ![p] = <<>>]
  /\ UNCHANGED <<globals, pc, op, feats, idx_qpu, needed, today, snap, ret,
                 fault, reserves, charged>>

\* The fusion of one histogram into a one-record result.
ScoreFuse(p) ==
  /\ UNCHANGED tunevars
  /\ preds[p] = <<>>
  /\ \E h \in Histograms :
       /\ hists' = [hists EXCEPT ![p] = <<h>>]
       /\ preds' = [preds EXCEPT ![p] = FusePreds(<<0>>, <<1>>, <<h>>)]
       /\ confs' = [confs EXCEPT ![p] = FuseConfs(<<0>>, <<1>>, <<h>>)]
  /\ preview' = [preview EXCEPT ![p] = NoPreview]
  /\ UNCHANGED <<globals, pc, op, feats, idx_qpu, needed, today, snap, ret,
                 fault, reserves, charged>>

\* The result has been taken.
ScoreTaken(p) ==
  /\ UNCHANGED tunevars
  /\ preds[p] # <<>>
  /\ preview' = [preview EXCEPT ![p] = NoPreview]
  /\ preds' = [preds EXCEPT ![p] = <<>>]
  /\ confs' = [confs EXCEPT ![p] = <<>>]
  /\ hists' = [hists EXCEPT ![p] = <<>>]
  /\ UNCHANGED <<globals, pc, op, feats, idx_qpu, needed, today, snap, ret,
                 fault, reserves, charged>>

NextScore == ScorePreview(1) \/ ScoreFuse(1) \/ ScoreTaken(1)

SpecScore == InitScore /\ [][NextScore]_vars

\* --------------------------------------- sim.py, backtest.py, tune.py
\* Number of trials main is asked to run (--trials).
MaxTrials == 2

horizon == 7
target  == 100

\* tune.py SEARCH_SPACE: the keys a trial samples.
SearchKeys == WeightKeys \cup {"angle_0", "angle_1"}

\* The parameter sets trial.suggest_float may give, within the ranges.
Candidates ==
  { [k \in SearchKeys |-> IF k \in WeightKeys THEN 1000 ELSE 0],
    [k \in SearchKeys |-> IF k \in WeightKeys THEN -377 ELSE 3141],
    [k \in SearchKeys |->
       IF k \in {"angle_0", "angle_1"} THEN 1571 ELSE DefaultRules[k]] }

\* The files that may lie beside model.py when tune.py imports it.
TuneFileStates ==
  { [f \in {"best_params.json", "rules.json"} |->
       IF f = "best_params.json" THEN b ELSE r] :
    b \in {Absent, [ma_trend_weight |-> 1000]},
    r \in {Absent, [rsi_extreme_weight |-> -377, vol_rank_weight |-> 7]} }

\* The closing prices yf.download may return for the window.
CloseShort == [i \in 1..7 |-> 100 + i]
CloseRise  == [i \in 1..8 |-> 100 + i]
CloseFall  == [i \in 1..9 |-> 200 - i]
CloseFlat  == [i \in 1..9 |-> 100]
PriceSeries == {CloseShort, CloseRise, CloseFall, CloseFlat}

\* _build_features: strike_price = close_px * 1.05 (both prices are kept
\* in twentieths so that the strike is integral).
build_features(close_px) ==
  << [spot_price |-> 20 * close_px, strike_price |-> 21 * close_px] >>

\* One row of simulate: ret_7d is kept as the fraction num / den.
Row(cl, i, signal) ==
  [date    |-> i,
   ret_num |-> cl[i + horizon] - cl[i],
   ret_den |-> cl[i],
   signal  |-> signal]

\* Mutant of IsHit: a return of exactly 0 counts for a bullish signal.
IsHitOrFlat(row) ==
  \/ (row.signal > 0 /\ row.ret_num >= 0)
  \/ (row.signal < 0 /\ row.ret_num < 0)

\* backtest.py: a row is a hit when signal and return are both positive
\* or both negative.
IsHit(row) ==
  \/ (row.signal > 0 /\ row.ret_num > 0)
  \/ (row.signal < 0 /\ row.ret_num < 0)

Hits(rs) == Cardinality({i \in DOMAIN rs : IsHit(rs[i])})

\* hit_rate = hit.mean() if hit.size else 0.0, as a fraction.
HitRate(rs) ==
  IF rs = <<>> THEN NoRate ELSE [num |-> Hits(rs), den |-> Len(rs)]

\* metric = hit_rate - abs(target - hit_rate), as a fraction in
\* thousandths.
Metric(hr) ==
  [num |-> 1000 * hr.num - Abs(target * hr.den - 1000 * hr.num),
   den |-> 1000 * hr.den]

\* a.value >= b.value
ValueGE(a, b) == a.value.num * b.value.den >= b.value.num * a.value.den

Completed(st) == {i \in DOMAIN st : st[i].state = "COMPLETE"}

\* Mutant of BestTrial: the direction of the study is taken as minimize.
BestTrialMin(st) ==
  st[CHOOSE i \in Completed(st) :
       /\ \A j \in Completed(st) : ValueGE(st[j], st[i])
       /\ \A j \in Completed(st) : (j < i) => ~ValueGE(st[i], st[j])]

\* study.best_trial with direction="maximize": the first completed trial
\* of greatest value.
BestTrial(st) ==
  st[CHOOSE i \in Completed(st) :
       /\ \A j \in Completed(st) : ValueGE(st[i], st[j])
       /\ \A j \in Completed(st) : (j < i) => ~ValueGE(st[j], st[i])]

InitTune ==
  /\ files \in TuneFileStates
  /\ RULES = LoadRules(files)
  /\ clock = 1
  /\ doc = EmptyDoc
  /\ calls = 0
  /\ granted = [d \in Days |-> 0]
  /\ drawn = [d \in Days |-> 0]
  /\ InitLocals
  /\ tpc = "optimize"
  /\ trial = 0
  /\ params = NoParams
  /\ study = <<>>
  /\ closes = <<>>
  /\ rows = <<>>
  /\ seen = NoParams
  /\ hit_rate = NoRate
  /\ InitLoaded

\* objective up to run_backtest: the parameters are suggested and stored
\* as the trial's user attributes; RULES is not written.
TuneSuggest ==
  /\ tpc = "optimize"
  /\ trial < MaxTrials
  /\ params' \in Candidates
  /\ tpc' = "simulate"
  /\ UNCHANGED <<globals, locals, trial, study, closes, rows, seen,
                 hit_rate, loadvars>>

\* simulate downloads the window; fewer than 8 rows raise ValueError.
TuneDownload ==
  /\ tpc = "simulate"
  /\ \E cl \in PriceSeries :
       /\ closes' = cl
       /\ tpc' = IF Len(cl) < horizon + 1 THEN "raised" ELSE "rows"
  /\ UNCHANGED <<globals, locals, trial, params, study, rows, seen,
                 hit_rate, loadvars>>

\* One iteration of simulate's loop: batch_predict on the one-record
\* batch of that day, run to its end, and the row appended.
TuneRow ==
  /\ tpc = "rows"
  /\ Len(rows) < Len(closes) - horizon
  /\ \E r \in Previews(RULES) :
       LET i   == Len(rows) + 1
           fs  == build_features(closes[i])
           ps  == Broadcast(r.pred, fs)
           cs  == Broadcast(r.conf, fs)
           idx == IdxQpu(cs)
           n   == NeededShots(idx)
           t   == txn(doc, clock, n)
           cb  == [j \in DOMAIN idx |-> build_circuit(fs[idx[j]])]
       IN  IF ~r.ok
           THEN /\ tpc' = "raised"
                /\ UNCHANGED <<doc, granted, drawn, rows, seen>>
           ELSE /\ seen' = [k \in WeightKeys |-> RULES[k]]
                /\ doc' = IF idx # <<>> THEN t.data ELSE doc
                /\ granted' = IF idx # <<>> /\ t.ret
                              THEN [granted EXCEPT ![clock] = @ + n]
                              ELSE granted
                /\ IF FireQpu(idx, t.ret)
                   THEN \/ /\ \E hs \in SubmitResults(cb) :
                                rows' = Append(rows,
                                          Row(closes, i, FusePreds(ps, idx, hs)[1]))
                           /\ drawn' = [drawn EXCEPT
                                          ![clock] = @ + Len(cb) * shots_per_row]
                           /\ UNCHANGED tpc
                        \/ /\ tpc' = "raised"
                           /\ UNCHANGED <<drawn, rows>>
                   ELSE /\ rows' = Append(rows, Row(closes, i, ps[1]))
                        /\ UNCHANGED <<tpc, drawn>>
  /\ UNCHANGED <<files, RULES, clock, calls, locals, trial, params, study,
                 closes, hit_rate, loadvars>>

\* simulate returns its rows and run_backtest the hit rate over them.
TuneBacktest ==
  /\ tpc = "rows"
  /\ Len(rows) = Len(closes) - horizon
  /\ hit_rate' = HitRate(rows)
  /\ tpc' = "metric"
  /\ UNCHANGED <<globals, locals, trial, params, study, closes, rows, seen,
                 loadvars>>

\* objective returns the metric: the value of the finished trial.
TuneEndTrial ==
  /\ tpc = "metric"
  /\ study' = Append(study, [state |-> "COMPLETE", value |-> Metric(hit_rate),
                             user_attrs |-> params])
  /\ trial' = trial + 1
  /\ tpc' = "optimize"
  /\ params' = NoParams
  /\ closes' = <<>>
  /\ rows' = <<>>
  /\ seen' = NoParams
  /\ hit_rate' = NoRate
  /\ UNCHANGED <<globals, locals, loadvars>>

\* objective re-raises; study.optimize (no catch argument) lets the
\* exception through and main exits with code 1.
TuneTrialRaises ==
  /\ tpc = "raised"
  /\ study' = Append(study, [state |-> "FAIL", value |-> [num |-> 0, den |-> 1],
                             user_attrs |-> params])
  /\ tpc' = "exit1"
  /\ UNCHANGED <<globals, locals, trial, params, closes, rows, seen,
                 hit_rate, loadvars>>

\* After the last trial main takes the best trial's user attributes and
\* BEST_FILE.write_text opens the file for writing, which creates it or
\* cuts it to zero length.
TuneOpen ==
  /\ tpc = "optimize"
  /\ trial = MaxTrials
  /\ files' = [files EXCEPT !["best_params.json"] = EmptyText]
  /\ tpc' = "write"
  /\ UNCHANGED <<RULES, clock, doc, calls, granted, drawn, locals, trial,
                 params, study, closes, rows, seen, hit_rate, loadvars>>

\* write_text writes the JSON text of the attributes and closes the file.
TuneWriteText ==
  /\ tpc = "write"
  /\ files' = [files EXCEPT
                 !["best_params.json"] = BestTrial(study).user_attrs]
  /\ tpc' = "done"
  /\ UNCHANGED <<RULES, clock, doc, calls, granted, drawn, locals, trial,
                 params, study, closes, rows, seen, hit_rate, loadvars>>

\* The process is killed between the open and the write.
TuneKilled ==
  /\ tpc = "write"
  /\ tpc' = "killed"
  /\ UNCHANGED <<globals, locals, trial, params, study, closes, rows, seen,
                 hit_rate, loadvars>>

NextTune ==
  \/ TuneSuggest
  \/ TuneDownload
  \/ TuneRow
  \/ TuneBacktest
  \/ TuneEndTrial
  \/ TuneTrialRaises
  \/ TuneOpen
  \/ TuneWriteText
  \/ TuneKilled

SpecTune == InitTune /\ [][NextTune]_vars

\* ------------------------- the import of model.py beside tune.py's write
\* The files that may lie beside model.py when a process imports it.
LoadContents == OverrideDocs \cup {Absent, Garbled}
LoadFileStates ==
  { [f \in {"best_params.json", "rules.json"} |->
       IF f = "best_params.json" THEN b ELSE r] :
    b \in LoadContents, r \in LoadContents }

\* The values objective returns: the metric of no hit and of every hit.
TrialValues == { Metric([num |-> 0, den |-> 1]), Metric([num |-> 1, den |-> 1]) }

\* The studies study.optimize may hand back to main: every trial complete.
FinishedStudies ==
  [1..MaxTrials ->
     [state : {"COMPLETE"}, value : TrialValues, user_attrs : Candidates]]

\* A process starts importing model.py (RULES holds the literal of lines
\* 20-34) while tune.py's main, in another process, has its study back.
InitLoad ==
  /\ files \in LoadFileStates
  /\ RULES = DefaultRules
  /\ clock = 1
  /\ doc = EmptyDoc
  /\ calls = 0
  /\ granted = [d \in Days |-> 0]
  /\ drawn = [d \in Days |-> 0]
  /\ InitLocals
  /\ tpc = "optimize"
  /\ trial = MaxTrials
  /\ params = NoParams
  /\ study \in FinishedStudies
  /\ closes = <<>>
  /\ rows = <<>>
  /\ seen = NoParams
  /\ hit_rate = NoRate
  /\ lpc = "for"
  /\ fidx = 1
  /\ text = Absent

\* One turn of the for loop up to p.exists(): a file that does not exist
\* is passed over; after the last name the loop is over.
LoadExists ==
  /\ lpc = "for"
  /\ IF fidx > Len(FileNames)
     THEN lpc' = "loaded" /\ UNCHANGED fidx
     ELSE IF files[FileNames[fidx]] = Absent
          THEN fidx' = fidx + 1 /\ UNCHANGED lpc
          ELSE lpc' = "update" /\ UNCHANGED fidx
  /\ UNCHANGED <<globals, locals, tpc, trial, params, study, closes, rows,
                 seen, hit_rate, text>>

\* RULES.update(json.loads(p.read_text())) and break: the text is read as
\* it is now; text that is not JSON raises out of the module.
LoadUpdate ==
  /\ lpc = "update"
  /\ text' = files[FileNames[fidx]]
  /\ IF Parses(text')
     THEN RULES' = Update(RULES, text') /\ lpc' = "loaded"
     ELSE lpc' = "raised" /\ UNCHANGED RULES
  /\ UNCHANGED <<files, clock, doc, calls, granted, drawn, locals, tpc,
                 trial, params, study, closes, rows, seen, hit_rate, fidx>>

NextLoad ==
  \/ LoadExists
  \/ LoadUpdate
  \/ TuneOpen
  \/ TuneWriteText
  \/ TuneKilled

SpecLoad == InitLoad /\ [][NextLoad]_vars

\* ------------------------------------------------------------ claims
Callers(o) == {p \in Procs : op[p] = o}
Used(d) == Get(doc, d)

\* C1: whatever the interleaving of the reservations, the amounts granted
\* for one UTC day never add up to more than the daily budget, and neither
\* does the stored usage of that day.
C1_QuotaNeverOverdrawn ==
  \A d \in Days : granted[d] <= DAILY_BUDGET /\ Used(d) <= DAILY_BUDGET

\* Two transactions for the same day are staged at once, each fitting the
\* budget alone and overdrawing it together.
C1_Witness ==
  \E p, q \in Procs :
    /\ p # q
    /\ pc[p] = "commit" /\ pc[q] = "commit"
    /\ today[p] = today[q]
    /\ Used(today[p]) + needed[p] + needed[q] > DAILY_BUDGET

\* C2: a use_shots call that returns has either been refused, the stored
\* usage of its day then exceeding the budget with n added and the document
\* left as it was, or been granted, the usage of its day then being raised
\* by exactly n and staying within the budget (reaching it included); the
\* document changes in no other step.
C2_AllOrNothing ==
  [][ /\ \A p \in Procs :
           (ret[p] = "none" /\ ret'[p] # "none") =>
             LET used == Used(today[p])
                 n    == needed[p]
             IN  IF used + n > DAILY_BUDGET
                 THEN ret'[p] = "denied" /\ doc' = doc
                 ELSE /\ ret'[p] = "granted"
                      /\ doc' = (today[p] :> (used + n)) @@ doc
      /\ doc' # doc => \E p \in Procs : ret[p] = "none" /\ ret'[p] = "granted"
    ]_vars

\* A reservation landing exactly on the budget has been granted.
C2_Witness ==
  \E p \in Procs :
    /\ ret[p] = "granted"
    /\ charged[p] = needed[p]
    /\ needed[p] > 0
    /\ Used(today[p]) = DAILY_BUDGET

\* C3: the backend works only for a call whose own reservation was
\* granted, so the samples drawn for the reservations of one day stay
\* within what was reserved that day and within the daily budget.
C3_BackendWithinBudget ==
  /\ \A p \in Procs :
       (pc[p] = "refine" \/ hists[p] # <<>>) =>
         /\ ret[p] = "granted"
         /\ charged[p] = Len(idx_qpu[p]) * shots_per_row
  /\ \A d \in Days :
       drawn[d] <= Used(d) /\ drawn[d] <= DAILY_BUDGET

\* The backend has drawn samples on a day whose budget is used up.
C3_Witness ==
  \E d \in Days : drawn[d] > 0 /\ Used(d) = DAILY_BUDGET

\* Whether (s, c) is a result the backend can give for the record f.
\* spot = strike measures 0 every time, spot = 2 strike measures 1 every
\* time; any other record may give any count.
BelongsTo(s, c, f) ==
  /\ f.strike_price # 0
  /\ IF f.spot_price = f.strike_price THEN s = -1 /\ c = 100
     ELSE IF f.spot_price = 2 * f.strike_price THEN s = 1 /\ c = 100
     ELSE \E o \in 0..shots_per_row :
            /\ s = (IF 2 * o >= shots_per_row THEN 1 ELSE -1)
            /\ c = Abs(2 * o - shots_per_row)

\* C4: what batch_predict returns has one signal and one confidence per
\* input record, in the order of the input: on the refined path the i-th
\* pair is one the i-th record's circuit yields, on the others it is the
\* preview.
C4_LengthAndOrder ==
  \A p \in Callers("batch_predict") :
    pc[p] = "returned" =>
      /\ Len(preds[p]) = Len(feats[p])
      /\ Len(confs[p]) = Len(feats[p])
      /\ \A i \in 1..Len(feats[p]) :
           IF hists[p] # <<>>
           THEN BelongsTo(preds[p][i], confs[p][i], feats[p][i])
           ELSE preds[p][i] = preview[p].pred /\ confs[p][i] = preview[p].conf

\* A batch of three records has come back refined.
C4_Witness ==
  \E p \in Callers("batch_predict") :
    pc[p] = "returned" /\ Len(feats[p]) = 3 /\ Len(hists[p]) = 3

\* C5: a call with an empty batch, with a preview confidence under the
\* threshold, or with its reservation refused returns the preview for every
\* record, never reaches the backend and adds nothing to the stored usage;
\* with nothing selected it does not call use_shots.
C5_FallbackIsPreview ==
  \A p \in Callers("batch_predict") :
    LET unselected == feats[p] = <<>> \/ preview[p].conf < QPU_THRESHOLD
    IN  pc[p] # "raised" =>
        /\ unselected => (reserves[p] = 0 /\ ret[p] = "none")
        /\ (unselected \/ ret[p] = "denied") =>
             /\ charged[p] = 0
             /\ hists[p] = <<>>
             /\ pc[p] # "refine"
             /\ pc[p] = "returned" =>
                  /\ preds[p] = [i \in 1..Len(feats[p]) |-> preview[p].pred]
                  /\ confs[p] = [i \in 1..Len(feats[p]) |-> preview[p].conf]

\* Three selected records, less than 300 shots left: refused, and the
\* preview is returned.
C5_Witness ==
  \E p \in Callers("batch_predict") :
    /\ pc[p] = "returned" /\ ret[p] = "denied"
    /\ Len(idx_qpu[p]) = 3
    /\ DAILY_BUDGET - Used(today[p]) < 3 * shots_per_row
    /\ DAILY_BUDGET - Used(today[p]) > 0

\* C6: a batch_predict call calls use_shots at most once, for
\* |selected| x shots_per_row; granted, it has added exactly that to the
\* stored usage, and otherwise nothing.
C6_ExactCharge ==
  \A p \in Callers("batch_predict") :
    /\ reserves[p] <= 1
    /\ ret[p] # "granted" => charged[p] = 0
    /\ pc[p] # "raised" =>
         /\ reserves[p] = 1 => needed[p] = Len(idx_qpu[p]) * shots_per_row
         /\ ret[p] = "granted" => charged[p] = Len(idx_qpu[p]) * shots_per_row

\* Three selected records have been granted 300 shots.
C6_Witness ==
  \E p \in Callers("batch_predict") :
    ret[p] = "granted" /\ Len(idx_qpu[p]) = 3 /\ charged[p] = 300

\* c is round(|ones/total - 0.5| * 2, 2) in hundredths: the hundredth
\* nearest to |2 ones - total| / total.
NearestHundredth(c, ones, total) ==
  2 * Abs(c * total - 100 * Abs(2 * ones - total)) <= total

\* C7: after a granted reservation the j-th histogram decides the j-th
\* selected record and no other: signal +1 if p_up >= 0.5 else -1,
\* confidence round(|p_up - 0.5| x 2, 2); a record not selected keeps the
\* preview.  A tie gives +1 with confidence 0, an empty histogram -1 with
\* confidence 1.
C7_Fusion ==
  /\ \A p \in Callers("batch_predict") :
       (pc[p] = "returned" /\ ret[p] = "granted") =>
         /\ Len(hists[p]) = Len(idx_qpu[p])
         /\ \A j \in 1..Len(idx_qpu[p]) :
              LET i     == idx_qpu[p][j]
                  ones  == hists[p][j].one
                  total == Max(ones + hists[p][j].zero, 1)
              IN  /\ preds[p][i] = (IF 2 * ones >= total THEN 1 ELSE -1)
                  /\ NearestHundredth(confs[p][i], ones, total)
         /\ \A i \in 1..Len(feats[p]) :
              (~ \E j \in 1..Len(idx_qpu[p]) : idx_qpu[p][j] = i) =>
                (preds[p][i] = preview[p].pred /\ confs[p][i] = preview[p].conf)
  /\ FusePred([one |-> 0, zero |-> 0]) = -1
  /\ FuseConf([one |-> 0, zero |-> 0]) = 100

\* A refined call has come back with a tie among its histograms.
C7_Witness ==
  \E p \in Callers("batch_predict") :
    /\ pc[p] = "returned" /\ ret[p] = "granted"
    /\ \E j \in 1..Len(hists[p]) :
         /\ hists[p][j].one = hists[p][j].zero
         /\ preds[p][idx_qpu[p][j]] = 1
         /\ confs[p][idx_qpu[p][j]] = 0

\* C8 (as claimed): a fault of the refinement after a granted reservation
\* never leaves batch_predict; the call returns the preview instead.
C8_BackendFaultContained ==
  \A p \in Callers("batch_predict") :
    ret[p] = "granted" => pc[p] # "raised"

\* C9: every result of the scorer and of the fusion, for every weight of
\* the search range and every histogram, has signal +1 or -1 and a
\* confidence between 0 and 1 (0..100 hundredths).
C9_ResultRange ==
  \A p \in Procs :
    /\ preview[p] # NoPreview =>
         /\ preview[p].pred \in {1, -1}
         /\ preview[p].conf \in 0..100
    /\ \A i \in 1..Len(preds[p]) : preds[p][i] \in {1, -1}
    /\ \A i \in 1..Len(confs[p]) : confs[p][i] \in 0..100

\* A score beyond 1 in magnitude has been clipped to confidence 1.0.
C9_Witness ==
  \E p \in Procs :
    /\ \A k \in WeightKeys : RULES[k] = 1000
    /\ preview[p] # NoPreview
    /\ preview[p].conf = 100
    /\ preds[p] = <<preview[p].pred>>

\* C10 (as claimed): while a trial's backtest runs, RULES holds the
\* trial's value for every sampled key, and every score computed has read
\* the trial's value of each weight.
C10_CandidateApplied ==
  tpc \in {"simulate", "rows"} =>
    /\ \A k \in SearchKeys : RULES[k] = params[k]
    /\ rows # <<>> => \A k \in WeightKeys : seen[k] = params[k]

\* C11 (as claimed): a trial that raised is recorded as failed and the
\* search goes on with the trials that remain; main does not end on it.
C11_SearchContinues ==
  \A i \in DOMAIN study :
    (study[i].state = "FAIL" /\ i < MaxTrials) => tpc # "exit1"

\* C12: the override files change only once MaxTrials trials have
\* completed, none having failed, and only best_params.json does; when main
\* is done the file holds the user attributes of a completed trial whose
\* value no other trial exceeds.  A run in which a trial raised therefore
\* leaves the files as they were.
C12_WrittenAfterSearch ==
  [][ /\ files' # files =>
           /\ Len(study) = MaxTrials
           /\ \A i \in DOMAIN study : study[i].state = "COMPLETE"
           /\ files'["rules.json"] = files["rules.json"]
      /\ (tpc # "done" /\ tpc' = "done") =>
           \E i \in DOMAIN study' :
             /\ study'[i].state = "COMPLETE"
             /\ files'["best_params.json"] = study'[i].user_attrs
             /\ \A j \in DOMAIN study' :
                  study'[i].value.num * study'[j].value.den
                    >= study'[j].value.num * study'[i].value.den
    ]_vars

\* main is done, one trial scored strictly better than every other, with
\* parameters of its own, and the file holds them.
C12_Witness ==
  /\ tpc = "done"
  /\ \E i \in DOMAIN study :
       /\ files["best_params.json"] = study[i].user_attrs
       /\ \A j \in DOMAIN study \ {i} :
            /\ ~ValueGE(study[j], study[i])
            /\ study[j].user_attrs # study[i].user_attrs

\* C15 (as claimed): simulate fails only on fewer than horizon + 1
\* closes; on any longer series it returns one row per date that has a
\* successor horizon days later, in date order, with the realised return
\* of that date.
C15_Replay ==
  /\ tpc = "raised" => Len(closes) < horizon + 1
  /\ tpc = "metric" =>
       /\ Len(rows) = Len(closes) - horizon
       /\ \A i \in DOMAIN rows :
            /\ rows[i].date = i
            /\ rows[i].signal \in {1, -1}
            /\ rows[i].ret_num = closes[i + horizon] - closes[i]
            /\ rows[i].ret_den = closes[i]

\* C16: the hit rate run_backtest returns is the fraction of rows whose
\* signal and realised return have the same sign, a return of 0 matching
\* nothing; with every signal +1 it is 1 when every return is positive and
\* 0 when every return is negative.
C16_HitRate ==
  tpc = "metric" =>
    LET n     == Len(rows)
        match == {i \in 1..n : rows[i].signal * rows[i].ret_num > 0}
    IN  /\ n > 0
        /\ hit_rate.den > 0
        /\ hit_rate.num * n = Cardinality(match) * hit_rate.den
        /\ (\A i \in 1..n : rows[i].signal = 1 /\ rows[i].ret_num > 0)
             => hit_rate.num = hit_rate.den
        /\ (\A i \in 1..n : rows[i].signal = 1 /\ rows[i].ret_num < 0)
             => hit_rate.num = 0

\* Every row is bullish with a realised return of exactly 0: all misses.
C16_Witness ==
  /\ tpc = "metric"
  /\ Len(rows) > 1
  /\ \A i \in DOMAIN rows : rows[i].signal = 1 /\ rows[i].ret_num = 0
  /\ hit_rate.num = 0

\* C13: once the import is over, with the files as they were found, RULES
\* is the defaults overridden, key by key, by best_params.json if it
\* exists, else by rules.json if it exists, else by nothing; a key the
\* source does not name keeps its default.
C13_FirstOverrideMerged ==
  (lpc = "loaded" /\ tpc = "optimize") =>
    LET b   == files["best_params.json"]
        r   == files["rules.json"]
        src == IF b # Absent THEN b ELSE IF r # Absent THEN r ELSE NoParams
    IN  /\ DOMAIN RULES = RuleKeys \cup DOMAIN src
        /\ \A k \in DOMAIN RULES :
             RULES[k] = IF k \in DOMAIN src THEN src[k] ELSE DefaultRules[k]

\* Both files exist with different documents: best_params.json decided
\* and rules.json was not read.
C13_Witness ==
  /\ lpc = "loaded" /\ tpc = "optimize"
  /\ files["best_params.json"] = [ma_trend_weight |-> 1000]
  /\ files["rules.json"] = [rsi_extreme_weight |-> -377, vol_rank_weight |-> 7]
  /\ RULES["ma_trend_weight"] = 1000
  /\ RULES["rsi_extreme_weight"] = DefaultRules["rsi_extreme_weight"]

\* C14 (as claimed): an override file that exists and is not well-formed
\* does not make the import fail; RULES is then the pure defaults.
C14_MalformedNotFatal ==
  text = Garbled => (lpc # "raised" /\ RULES = DefaultRules)

\* C18 (as claimed): a load never reads an empty or cut-short
\* best_params.json, and a writer killed in its write leaves none behind.
C18_AtomicReplace ==
  /\ text # EmptyText
  /\ tpc = "killed" => files["best_params.json"] # EmptyText

\* C17: the stored usage of every day is the sum of the amounts granted
\* for that day, no more and no less: a grant adds its n to its own day
\* and to no other, a day without a grant reads 0, nothing is ever taken
\* back, and what a call was charged stays charged when its refinement
\* fails.
C17_OnlyGrantsCount ==
  /\ \A d \in Days :
       /\ Used(d) = granted[d]
       /\ d \notin DOMAIN doc => granted[d] = 0
  /\ \A p \in Callers("batch_predict") :
       (pc[p] = "raised" /\ ret[p] = "granted") =>
         \E d \in Days : Used(d) >= charged[p] /\ charged[p] > 0

\* A refinement has failed after its reservation, the usage of the day
\* still holds what the call was charged, and an earlier day keeps its own.
C17_Witness ==
  /\ \E p \in Callers("batch_predict") :
       /\ pc[p] = "raised" /\ ret[p] = "granted"
       /\ Used(clock) = charged[p]
       /\ charged[p] > 0
  /\ \E d \in Days : d < clock /\ Used(d) > 0

\* C19 (as claimed): the classical scorer never fails on a short price
\* history; it scores with the oscillator at 50.
C19_ShortHistoryTolerated ==
  \A p \in Procs : fault[p] # "IndexError"

\* C20: a call selects, and refines, every record of its batch or none; a
\* batch of more than RecordsPerDay (25) records is never granted nor
\* refined; the records refined against one day's counter never exceed 25,
\* and once they are 25 every reservation still pending for that day is
\* refused.
C20_AllOrNoneWithinDay ==
  /\ \A p \in Callers("batch_predict") :
       pc[p] # "raised" =>
         /\ Len(idx_qpu[p]) \in {0, Len(feats[p])}
         /\ Len(hists[p]) \in {0, Len(feats[p])}
         /\ Len(feats[p]) > RecordsPerDay =>
              (ret[p] # "granted" /\ pc[p] # "refine" /\ hists[p] = <<>>)
  /\ \A d \in Days :
       /\ drawn[d] <= RecordsPerDay * shots_per_row
       /\ drawn[d] = RecordsPerDay * shots_per_row =>
            \A p \in Procs :
              (pc[p] = "txn" /\ today[p] = d) =>
                ~txn(doc, d, needed[p]).ret

\* 25 records have been refined today and a later call of one record has
\* come back refused, with the preview.
C20_Witness ==
  \E p \in Callers("batch_predict") :
    /\ pc[p] = "returned" /\ ret[p] = "denied"
    /\ Len(feats[p]) = 1
    /\ hists[p] = <<>>
    /\ drawn[today[p]] = RecordsPerDay * shots_per_row

====
